---------------------------- MODULE Spec2Model ----------------------------
(***************************************************************************)
(* A model of the ELO matchmaking simulation: the player store, the team   *)
(* formation of MatchMakerServer.find_players, the game sessions           *)
(* (Game.run / Game.compute_score), the rating step (Game.update_elo) and  *)
(* the run loop of MatchMakerServer.run.                                   *)
(*                                                                         *)
(* Numbers.  An elo is an integer number of EloUnit rating points (so      *)
(* 10 ** (elo / 400) is 10 ^ (e / 40) for e = elo / EloUnit).  The float   *)
(* arithmetic of get_elo_delta and of the average of update_elo is kept    *)
(* as floating point of SigDigits                                          *)
(* decimal digits, rounded to nearest with ties to even as the doubles of  *)
(* Python are: a number is an integer count of 1 / Quantum, and every      *)
(* operation rounds its result to SigDigits significant digits.  The       *)
(* averaged delta is rounded to the nearest unit when it is added to an    *)
(* elo.  Timestamps (datetime.now()) are readings of an integer clock      *)
(* that never runs backwards.                                              *)
(***************************************************************************)
EXTENDS Integers, Sequences, FiniteSets, TLC

\* ------------------------------------------------------------------ bounds

NumPlayers == 4          \* registered players (main.py registers 51)
MaxTeamSize == 2         \* team_size ranges over 1..MaxTeamSize
MaxTeamNumber == 3       \* team_number ranges over 1..MaxTeamNumber
MaxTicks == 4            \* iterations of the run loop that are explored
MaxRoundLimit == 1       \* max_round ranges over 0 (None) .. MaxRoundLimit

\* --------------------------------------------------------------- constants

EloUnit == 10            \* rating points per modelled elo unit
Milli == 1000            \* fixed-point scale of a team strength
RatingFloor == 80        \* lowest elo (in units) the rating table covers
SigDigits == 4           \* significant decimal digits of a float
Quantum == 100000        \* a float below 1 is a count of 1 / Quantum
NoScore == -1            \* Team._score = None

Players == 1 .. NumPlayers

\* The dict PlayerStore.players iterates in insertion order: the order of the
\* list the server was built from.
PlayerOrder == [i \in 1 .. NumPlayers |-> i]

VARIABLES
    cfg,            \* games_settings, max_round, god_boost (fixed at construction)
    status,         \* PlayerStore.players : Player -> PlayerStatus
    last_played,    \* Player.last_played
    elo,            \* Player._elo
    true_rating,    \* Player.true_rating
    win,            \* Player.win
    lose,           \* Player.lose
    god,            \* Player.god
    active_games,   \* MatchMakerServer.active_games, in insertion order
    round_finished, \* run: round_finished
    finished_game,  \* run: finished_game, the value handle_games returned
    rated,          \* number of update_elo calls made so far
    pc,             \* where the run loop stands
    now,            \* the clock datetime.now() reads
    ticks           \* iterations of the run loop started so far

vars == <<cfg, status, last_played, elo, true_rating, win, lose, god,
          active_games, round_finished, finished_game, rated, pc, now, ticks>>

\* ----------------------------------------------------------------- helpers

Min(a, b) == IF a <= b THEN a ELSE b
Max(a, b) == IF a >= b THEN a ELSE b
Abs(x) == IF x < 0 THEN -x ELSE x

Range(s) == {s[i] : i \in DOMAIN s}

RECURSIVE SumSeq(_)
SumSeq(s) == IF s = <<>> THEN 0 ELSE Head(s) + SumSeq(Tail(s))

RECURSIVE Pow10(_)
Pow10(n) == IF n <= 0 THEN 1 ELSE 10 * Pow10(n - 1)

\* a / b rounded to the nearest integer, b > 0
RoundDiv(a, b) == (2 * a + b) \div (2 * b)

\* list.sort(key=...): a stable insertion sort, key a function on the elements.
RECURSIVE InsertByKey(_, _, _)
InsertByKey(x, s, key) ==
    IF s = <<>> THEN <<x>>
    ELSE IF key[x] < key[Head(s)] THEN <<x>> \o s
    ELSE <<Head(s)>> \o InsertByKey(x, Tail(s), key)

RECURSIVE SortByKey(_, _)
SortByKey(s, key) ==
    IF s = <<>> THEN <<>>
    ELSE InsertByKey(s[Len(s)], SortByKey(SubSeq(s, 1, Len(s) - 1), key), key)

\* s[:k] of Python: the first k elements, or all but the last -k when k < 0.
PySliceTo(s, k) ==
    IF k >= 0 THEN SubSeq(s, 1, Min(k, Len(s)))
    ELSE SubSeq(s, 1, Max(Len(s) + k, 0))

\* s[::stride] of Python, stride >= 1: the elements at 0, stride, 2*stride, ...
PyStride(s, stride) ==
    [j \in 1 .. ((Len(s) + stride - 1) \div stride) |-> s[(j - 1) * stride + 1]]

\* list.remove(x): drops the first element equal to x.
RECURSIVE PyRemove(_, _)
PyRemove(s, x) ==
    IF s = <<>> THEN <<>>
    ELSE IF Head(s) = x THEN Tail(s)
    ELSE <<Head(s)>> \o PyRemove(Tail(s), x)

RECURSIVE PyRemoveAll(_, _)
PyRemoveAll(s, xs) ==
    IF xs = <<>> THEN s ELSE PyRemoveAll(PyRemove(s, Head(xs)), Tail(xs))

\* The elements of a set of players as a sequence, ascending.
RECURSIVE SetToSeq(_)
SetToSeq(S) ==
    IF S = {} THEN <<>>
    ELSE LET m == CHOOSE x \in S : \A y \in S : x <= y
         IN <<m>> \o SetToSeq(S \ {m})

\* ------------------------------------------------------------- PlayerStore

StoreGetAnyStatus(st, wanted_status) == PlayerOrder

\* PlayerStore.get(wanted_status)
StoreGet(st, wanted_status) ==
    SelectSeq(PlayerOrder, LAMBDA p : st[p] = wanted_status)

RECURSIVE StoreSetNoStamp(_, _, _, _, _, _)
StoreSetNoStamp(players, new_status, st, lp, clock, step) ==
    IF players = <<>> THEN [status |-> st, last_played |-> lp, now |-> clock]
    ELSE StoreSetNoStamp(Tail(players), new_status,
                         [st EXCEPT ![Head(players)] = new_status],
                         lp, clock + step, step)

\* PlayerStore.set(players, new_status): every player gets the status and a
\* fresh reading of the clock, whatever the status is.  The clock moves on
\* by step (0: too coarse to tell the readings apart, 1: each one later)
\* after every reading.  The result is the new status map, the new stamps
\* and the clock after the call.
RECURSIVE StoreSet(_, _, _, _, _, _)
StoreSet(players, new_status, st, lp, clock, step) ==
    IF players = <<>> THEN [status |-> st, last_played |-> lp, now |-> clock]
    ELSE StoreSet(Tail(players), new_status,
                  [st EXCEPT ![Head(players)] = new_status],
                  [lp EXCEPT ![Head(players)] = clock],
                  clock + step, step)

\* Only the order of the stamps is ever read (find_players sorts on them, and
\* equal stamps keep the order of the dict), so the clock is counted from the
\* oldest stamp a player still holds, with the gaps closed: Rank maps a
\* reading to its position among the readings in use.
Rank(lp, clock, v) == Cardinality({u \in Range(lp) \cup {clock} : u < v})

RebaseStamps(lp, clock) == [p \in Players |-> Rank(lp, clock, lp[p])]

RebaseClock(lp, clock) == Rank(lp, clock, clock)

\* ------------------------------------------------------------ find_players

NoneAsEmptyGame == [found |-> TRUE, raised |-> FALSE, teams |-> <<>>]

\* return None
None == [found |-> FALSE, raised |-> FALSE, teams |-> <<>>]

\* waiting_players.pop(0) on an empty list
IndexError == [found |-> FALSE, raised |-> TRUE, teams |-> <<>>]

RECURSIVE BuildTeamsSameStride(_, _, _)
BuildTeamsSameStride(pending_players, num_teams, i) ==
    IF i >= num_teams THEN <<>>
    ELSE LET team == PyStride(pending_players, num_teams)
         IN <<team>> \o BuildTeamsSameStride(PyRemoveAll(pending_players, team),
                                             num_teams, i + 1)

RECURSIVE BuildTeamsInBlocks(_, _, _)
BuildTeamsInBlocks(pending_players, num_teams, i) ==
    IF i >= num_teams THEN <<>>
    ELSE LET team == SubSeq(pending_players, 1,
                            Len(pending_players) \div (num_teams - i))
         IN <<team>> \o BuildTeamsInBlocks(PyRemoveAll(pending_players, team),
                                           num_teams, i + 1)

\* The loop of find_players that deals the working buffer into teams.
RECURSIVE BuildTeams(_, _, _)
BuildTeams(pending_players, num_teams, i) ==
    IF i >= num_teams THEN <<>>
    ELSE LET team == PyStride(pending_players, num_teams - i)
         IN <<team>> \o BuildTeams(PyRemoveAll(pending_players, team),
                                   num_teams, i + 1)

OldestFirstUnsorted(waiting_players, lp) == waiting_players

\* waiting_players.sort(key=lambda x: x.last_played)
OldestFirst(waiting_players, lp) == SortByKey(waiting_players, lp)

\* The working buffer of find_players when it is dealt into teams: the
\* longest-waiting player and the num_per_teams * num_teams - 1 waiting
\* players nearest to its elo, sorted by elo.  waiting_players is the sorted
\* list of the waiting players, not empty.
PendingPlayers(waiting_players, el, num_per_teams, num_teams) ==
    LET first_player == Head(waiting_players)
        dist == [p \in Players |-> Abs(el[p] - el[first_player])]
        others == SortByKey(Tail(waiting_players), dist)
    IN SortByKey(<<first_player>>
                   \o PySliceTo(others, num_per_teams * num_teams - 1),
                 el)

\* MatchMakerServer.find_players
FindPlayers(st, lp, el, num_per_teams, num_teams) ==
    LET waiting_players == OldestFirst(StoreGet(st, "WAITING"), lp)
    IN IF Len(waiting_players) < num_per_teams * num_teams THEN None
       ELSE IF waiting_players = <<>> THEN IndexError
       ELSE [found |-> TRUE, raised |-> FALSE,
             teams |-> BuildTeams(PendingPlayers(waiting_players, el,
                                                 num_per_teams, num_teams),
                                  num_teams, 0)]

\* ------------------------------------------------------------------ Player

\* 1000 * 10 ^ (i / 40) for i = 0 .. 39: one decade of Player.rating
RatingTable ==
    <<1000, 1059, 1122, 1189, 1259, 1334, 1413, 1496, 1585, 1679,
      1778, 1884, 1995, 2113, 2239, 2371, 2512, 2661, 2818, 2985,
      3162, 3350, 3548, 3758, 3981, 4217, 4467, 4732, 5012, 5309,
      5623, 5957, 6310, 6683, 7079, 7499, 7943, 8414, 8913, 9441>>

\* Player.rating: 10 ** (elo / 400), scaled by a constant factor (a common
\* factor cancels in the expected score, the only use of a rating).
Rating(e) ==
    LET x == e - RatingFloor
        decade == x \div Len(RatingTable)
        mantissa == RatingTable[(x % Len(RatingTable)) + 1]
    IN IF decade >= 0 THEN mantissa * Pow10(decade)
       ELSE mantissa \div Pow10(-decade)

\* the number of decimal digits of n >= 0
RECURSIVE Digits(_)
Digits(n) == IF n < 10 THEN 1 ELSE 1 + Digits(n \div 10)

\* n >= 0 rounded to SigDigits significant digits, ties to even
RoundSig(n) ==
    LET d == Digits(n)
    IN IF d <= SigDigits THEN n
       ELSE LET u == Pow10(d - SigDigits)
                q == n \div u
                r == n % u
                up == 2 * r > u \/ (2 * r = u /\ q % 2 = 1)
            IN (IF up THEN q + 1 ELSE q) * u

\* the float nearest to x
Fl(x) == IF x >= 0 THEN RoundSig(x) ELSE -RoundSig(-x)

\* the float nearest to num / den, 0 < num <= den, as a count of 1 / Quantum
\* (the quotient is taken in two steps to stay within 32 bits)
FlDiv(num, den) ==
    LET q1 == (num * 1000) \div den
        r1 == (num * 1000) % den
        Q == q1 * (Quantum \div 1000) + (r1 * (Quantum \div 1000)) \div den
        R == (r1 * (Quantum \div 1000)) % den
        d == Digits(Q)
    IN IF d <= SigDigits
       THEN IF 2 * R > den \/ (2 * R = den /\ Q % 2 = 1) THEN Q + 1 ELSE Q
       ELSE LET u == Pow10(d - SigDigits)
                q == Q \div u
                rem == (Q % u) * den + R
                up == 2 * rem > u * den \/ (2 * rem = u * den /\ q % 2 = 1)
            IN (IF up THEN q + 1 ELSE q) * u

\* sum(floats): the items are added one by one, from the left, and every
\* partial sum is rounded
RECURSIVE FlSumFrom(_, _)
FlSumFrom(acc, floats) ==
    IF floats = <<>> THEN acc
    ELSE FlSumFrom(Fl(acc + Head(floats)), Tail(floats))

FlSum(floats) == FlSumFrom(0, floats)

\* the float nearest to x / n for a float x and an integer n > 0
FlQuot(x, n) ==
    LET q == Abs(x) \div n
        r == Abs(x) % n
        d == Digits(q)
        u == IF d <= SigDigits THEN 1 ELSE Pow10(d - SigDigits)
        qq == q \div u
        rem == (q % u) * n + r
        up == 2 * rem > u * n \/ (2 * rem = u * n /\ qq % 2 = 1)
        m == (IF up THEN qq + 1 ELSE qq) * u
    IN IF x >= 0 THEN m ELSE -m

GetEloDeltaDrawIsLoss(e_self, e_other, result, k_factor) ==
    LET rating_1 == Rating(e_self)
        rating_2 == Rating(e_other)
        expected_1 == FlDiv(rating_1, Fl(rating_1 + rating_2))
        score_1 == IF result = "P1_WIN" THEN Quantum ELSE 0
    IN Fl(k_factor * Fl(score_1 - expected_1))

\* Player.get_elo_delta, as a count of 1 / Quantum rating points
GetEloDelta(e_self, e_other, result, k_factor) ==
    LET rating_1 == Rating(e_self)
        rating_2 == Rating(e_other)
        expected_1 == FlDiv(rating_1, Fl(rating_1 + rating_2))
        score_1 == IF result = "DRAW" THEN Quantum \div 2
                   ELSE IF result = "P1_WIN" THEN Quantum ELSE 0
    IN Fl(k_factor * Fl(score_1 - expected_1))

NudgeUnclamped(tr, is_god, nudge, direction) ==
    IF ~is_god /\ direction # 0 THEN tr - nudge ELSE tr + nudge

\* Player.nudge: direction is 0 for a god player, else random.randint(0, 1)
Nudge(tr, is_god, nudge, direction) ==
    LET d == IF is_god THEN 0 ELSE direction
    IN Max(0, IF d # 0 THEN tr - nudge ELSE tr + nudge)

\* -------------------------------------------------------------------- Team

\* Team.compare
Compare(score_self, score_other) ==
    IF score_self > score_other THEN "P1_WIN"
    ELSE IF score_self < score_other THEN "P2_WIN"
    ELSE "DRAW"

\* -------------------------------------------------------------------- Game

\* A game: its teams (Team.players is a set), their scores and the state of
\* the task that runs Game.run.
NewGame(players_teams) ==
    [teams |-> [i \in DOMAIN players_teams |-> Range(players_teams[i])],
     score |-> [i \in DOMAIN players_teams |-> NoScore],
     task  |-> "running"]

\* Game.players(ignore_team): the (team, player) pairs, team by team; a set
\* of players is iterated in ascending order.
RECURSIVE GamePlayersFrom(_, _, _)
GamePlayersFrom(game, ignore_team, i) ==
    IF i > Len(game.teams) THEN <<>>
    ELSE (IF i = ignore_team THEN <<>>
          ELSE LET ps == SetToSeq(game.teams[i])
               IN [j \in DOMAIN ps |-> [team |-> i, player |-> ps[j]]])
         \o GamePlayersFrom(game, ignore_team, i + 1)

GamePlayers(game, ignore_team) == GamePlayersFrom(game, ignore_team, 1)

RosterOfFirstTeam(game) == SetToSeq(game.teams[1])

\* the players of a game, in the order of Game.players()
Roster(game) ==
    LET tp == GamePlayers(game, 0) IN [j \in DOMAIN tp |-> tp[j].player]

Members(game) == UNION Range(game.teams)

\* The outcomes one (team, player) pair of update_elo's outer loop meets: one
\* per (other_team, other_player) pair of the inner loop.
Faced(game, team) ==
    LET opp == GamePlayers(game, team)
    IN [j \in DOMAIN opp |->
          [outcome |-> Compare(game.score[team], game.score[opp[j].team]),
           other   |-> opp[j].player]]

\* Every outcome player p meets over the whole first loop of update_elo.
RECURSIVE FacedBy(_, _, _)
FacedBy(game, p, i) ==
    IF i > Len(game.teams) THEN <<>>
    ELSE (IF p \in game.teams[i] THEN Faced(game, i) ELSE <<>>)
         \o FacedBy(game, p, i + 1)

CountOutcome(faced, outcome) ==
    Cardinality({j \in DOMAIN faced : faced[j].outcome = outcome})

\* delta[player] of update_elo: the pairwise deltas, all from the elos the
\* players have when the rating step starts.
Deltas(game, p, el, k_factor) ==
    LET faced == FacedBy(game, p, 1)
    IN [j \in DOMAIN faced |->
          GetEloDelta(el[p], el[faced[j].other], faced[j].outcome, k_factor)]

\* sum(player_deltas) / len(player_deltas), for a player that has deltas
AverageDelta(game, p, el, k_factor) ==
    LET player_deltas == Deltas(game, p, el, k_factor)
    IN FlQuot(FlSum(player_deltas), Len(player_deltas))

\* player.elo + sum(player_deltas) / len(player_deltas); an elo is kept to
\* the nearest EloUnit points
NewElo(game, p, el, k_factor) ==
    IF FacedBy(game, p, 1) = <<>> THEN el[p]
    ELSE el[p] + RoundDiv(AverageDelta(game, p, el, k_factor),
                          Quantum * EloUnit)

\* add_win / add_lose: once per pass of the inner loop with that outcome
NewWin(game, p, wn) == wn[p] + CountOutcome(FacedBy(game, p, 1), "P1_WIN")
NewLose(game, p, ls) == ls[p] + CountOutcome(FacedBy(game, p, 1), "P2_WIN")

UpdateEloInPlace(game, el, wn, ls, tr, gd, dir, k_factor, nudge) ==
    LET M == Members(game)
        hasDelta(p) == p \in M /\ FacedBy(game, p, 1) # <<>>
        RECURSIVE ApplyInPlace(_, _)
        ApplyInPlace(roster, cur) ==
            IF roster = <<>> THEN cur
            ELSE ApplyInPlace(Tail(roster),
                    [cur EXCEPT ![Head(roster)] =
                                   NewElo(game, Head(roster), cur, k_factor)])
    IN [elo  |-> ApplyInPlace(Roster(game), el),
        win  |-> [p \in Players |->
                    IF p \in M THEN NewWin(game, p, wn) ELSE wn[p]],
        lose |-> [p \in Players |->
                    IF p \in M THEN NewLose(game, p, ls) ELSE ls[p]],
        true_rating |-> [p \in Players |->
                    IF hasDelta(p) /\ nudge # 0
                    THEN Nudge(tr[p], gd[p], nudge, dir[p]) ELSE tr[p]]]

\* Game.update_elo.  dir[p] is the value random.randint(0, 1) returns for p.
UpdateElo(game, el, wn, ls, tr, gd, dir, k_factor, nudge) ==
    LET M == Members(game)
        hasDelta(p) == p \in M /\ FacedBy(game, p, 1) # <<>>
    IN [elo  |-> [p \in Players |->
                    IF p \in M THEN NewElo(game, p, el, k_factor) ELSE el[p]],
        win  |-> [p \in Players |->
                    IF p \in M THEN NewWin(game, p, wn) ELSE wn[p]],
        lose |-> [p \in Players |->
                    IF p \in M THEN NewLose(game, p, ls) ELSE ls[p]],
        true_rating |-> [p \in Players |->
                    IF hasDelta(p) /\ nudge # 0
                    THEN Nudge(tr[p], gd[p], nudge, dir[p]) ELSE tr[p]]]

\* --------------------------------------------------- Game.compute_score

\* itertools.accumulate(weights)
RECURSIVE Accumulate(_, _)
Accumulate(weights, acc) ==
    IF weights = <<>> THEN <<>>
    ELSE <<acc + Head(weights)>> \o Accumulate(Tail(weights), acc + Head(weights))

\* bisect.bisect_right(a, x, lo, hi) with 0-based lo and hi; x is given
\* doubled (x2 = 2 * x) so that the points between two integers exist.
RECURSIVE BisectRight(_, _, _, _)
BisectRight(a, x2, lo, hi) ==
    IF lo >= hi THEN lo
    ELSE LET mid == (lo + hi) \div 2
         IN IF x2 < 2 * a[mid + 1] THEN BisectRight(a, x2, lo, mid)
            ELSE BisectRight(a, x2, mid + 1, hi)

\* random.choices(population, weights, k=1): the positions (1-based) it can
\* return, or {} when it raises ValueError (the total weight is not positive).
\* random() * total runs over [0, total); the result changes only at the
\* cumulated weights, so these and the points just after them are tried.
Choices(weights) ==
    LET cum == Accumulate(weights, 0)
        total == cum[Len(cum)]
        points == {2 * c + d : c \in {0} \cup Range(cum), d \in {0, 1}}
    IN IF total <= 0 THEN {}
       ELSE {BisectRight(cum, x2, 0, Len(cum) - 1) + 1 :
                x2 \in {x \in points : 0 <= x /\ x < 2 * total}}

\* teams_elo[team] for one team with at least one player, in thousandths.
TeamStrength(team, el, tr, gd, nudge, god_boost) ==
    LET ps == SetToSeq(team)
        vals == [j \in DOMAIN ps |-> IF nudge # 0 THEN tr[ps[j]] ELSE el[ps[j]]]
        nb_god == Cardinality({p \in team : gd[p]})
        avg == (SumSeq(vals) * Milli) \div Len(vals)
    IN avg + (avg * god_boost * nb_god)

RemoveAt(s, k) == [j \in 1 .. (Len(s) - 1) |-> IF j < k THEN s[j] ELSE s[j + 1]]

\* The drawing loop of compute_score: every order in which the teams still in
\* teams_elo can be drawn; a draw that raises ends the order with 0.
RECURSIVE DrawOrders(_, _)
DrawOrders(keys, values) ==
    IF keys = <<>> THEN {<<>>}
    ELSE IF Choices(values) = {} THEN {<<0>>}
    ELSE UNION {{<<keys[k]>> \o rest :
                    rest \in DrawOrders(RemoveAt(keys, k), RemoveAt(values, k))} :
                k \in Choices(values)}

\* for score, team in enumerate(results[::-1]): team.score = score
ScoresOf(results) ==
    [t \in 1 .. Len(results) |->
        Len(results) - (CHOOSE j \in DOMAIN results : results[j] = t)]

\* Game.compute_score: the games it can leave behind.  A run that raises
\* (ZeroDivisionError for a team without players, ValueError from
\* random.choices) leaves the scores unset and the task failed.
ComputeScore(game, el, tr, gd, nudge, god_boost) ==
    LET n == Len(game.teams)
        failed == [game EXCEPT !.task = "failed"]
    IN IF \E i \in 1 .. n : game.teams[i] = {} THEN {failed}
       ELSE LET strength ==
                    [i \in 1 .. n |->
                        TeamStrength(game.teams[i], el, tr, gd, nudge, god_boost)]
            IN {IF 0 \in Range(results) THEN failed
                ELSE [game EXCEPT !.score = ScoresOf(results), !.task = "done"] :
                   results \in DrawOrders([i \in 1 .. n |-> i], strength)}

\* ------------------------------------------------------- MatchMakerServer

\* asyncio.run(server.run()) returning, by the break or by an exception:
\* it cancels every task that is still pending.
CancelPending(games) ==
    [i \in DOMAIN games |->
        IF games[i].task = "running"
        THEN [games[i] EXCEPT !.task = "cancelled"] ELSE games[i]]

TaskCancelled(task) == task = "cancelled"

\* task.done()
TaskDone(task) == task # "running"

TaskNeverRaises(task) == FALSE

\* task.result() re-raises what the task raised
TaskRaises(task) == task = "failed"

\* The first loop of handle_games from position i on.  acc carries the player
\* fields, the clock, finished_game (positions in active_games), the number
\* of rating steps made and whether task.result() raised.
RECURSIVE HandleFrom(_, _, _, _, _)
HandleFrom(games, i, acc, dir, step) ==
    IF i > Len(games) \/ acc.raised THEN acc
    ELSE IF ~TaskDone(games[i].task) THEN HandleFrom(games, i + 1, acc, dir, step)
    ELSE IF TaskRaises(games[i].task)
         THEN [acc EXCEPT !.finished = Append(@, i), !.raised = TRUE]
    ELSE LET u == UpdateElo(games[i], acc.elo, acc.win, acc.lose,
                            acc.true_rating, god, dir, cfg.k_factor, cfg.nudge)
             s == StoreSet(Roster(games[i]), "WAITING",
                           acc.status, acc.last_played, acc.now, step)
         IN HandleFrom(games, i + 1,
                [status |-> s.status, last_played |-> s.last_played,
                 now |-> s.now, elo |-> u.elo, win |-> u.win, lose |-> u.lose,
                 true_rating |-> u.true_rating,
                 finished |-> Append(acc.finished, i),
                 rated |-> acc.rated + 1, raised |-> FALSE],
                dir, step)

PopNothing(games, finished) == games

PopAll(games, finished) == <<>>

\* for game in finished_game: self.active_games.pop(game, None)
PopFinished(games, finished) ==
    LET kept == SelectSeq([i \in DOMAIN games |-> i],
                          LAMBDA i : i \notin Range(finished))
    IN [j \in DOMAIN kept |-> games[kept[j]]]

RoundLimitReached(n, max_round) == n >= max_round

\* if round_finished > self.max_round
RoundLimitExceeded(n, max_round) == n > max_round

\* ------------------------------------------------------------- population

KFactor == 20            \* "k-factor"
GodBoost == 2            \* god_boost
NudgeValues == {0, 1}    \* nudge: 0 stands for None
ClockSteps == {0, 1}

TeamShapes == (1 .. MaxTeamSize) \X (1 .. MaxTeamNumber)

Configs ==
    {[team_size |-> shape[1], team_number |-> shape[2], k_factor |-> KFactor,
      nudge |-> n, god_boost |-> GodBoost, max_round |-> m] :
        shape \in TeamShapes, n \in NudgeValues, m \in 0 .. MaxRoundLimit}

\* The configurations whose runs visit finitely many states: with a k-factor
\* of 0 the rating step leaves every elo as it is, and without a nudge every
\* true_rating.
SteadyConfigs ==
    {[team_size |-> shape[1], team_number |-> shape[2], k_factor |-> 0,
      nudge |-> 0, god_boost |-> GodBoost, max_round |-> m] :
        shape \in TeamShapes, m \in 0 .. MaxRoundLimit}

\* the elos the players are created with, in units of EloUnit points
EloProfiles == {[p \in Players |-> 100 + (p - 1)]}

GodSets == {{1}}

\* ------------------------------------------------------------------- Init

\* The state main.py builds: the players (each stamped when it is created),
\* the store with everybody WAITING, the server.
Population(configs, profiles) ==
    /\ cfg \in configs
    /\ status = [p \in Players |-> "WAITING"]
    /\ \E step \in ClockSteps :
          /\ last_played = [p \in Players |-> (p - 1) * step]
          /\ now = (NumPlayers - 1) * step
    /\ elo \in profiles
    /\ true_rating = [p \in Players |-> 1]
    /\ win = [p \in Players |-> 0]
    /\ lose = [p \in Players |-> 0]
    /\ \E G \in GodSets : god = [p \in Players |-> p \in G]
    /\ active_games = <<>>
    /\ round_finished = 0
    /\ finished_game = 0
    /\ rated = 0
    /\ pc = "create"
    /\ ticks = 0

Init == Population(Configs, EloProfiles)

\* ---------------------------------------------------------------- actions

\* MatchMakerServer.try_create_game, the first call of an iteration of run.
\* counting: whether the iteration is counted (and capped by MaxTicks).
CreateGame(counting) ==
    /\ pc = "create"
    /\ counting => ticks < MaxTicks
    /\ LET players_teams == FindPlayers(status, last_played, elo,
                                        cfg.team_size, cfg.team_number)
       IN IF players_teams.raised
          THEN /\ active_games' = CancelPending(active_games)
               /\ pc' = "crashed"
               /\ UNCHANGED <<status, last_played, now>>
          ELSE IF ~players_teams.found
          THEN /\ pc' = "handle"
               /\ UNCHANGED <<status, last_played, now, active_games>>
          ELSE \E step \in ClockSteps :
                 LET game == NewGame(players_teams.teams)
                     s == StoreSet(Roster(game), "IN_GAME",
                                   status, last_played, now, step)
                 IN /\ status' = s.status
                    /\ last_played' = RebaseStamps(s.last_played, s.now)
                    /\ now' = RebaseClock(s.last_played, s.now)
                    /\ active_games' = Append(active_games, game)
                    /\ pc' = "handle"
    /\ ticks' = IF counting THEN ticks + 1 ELSE ticks
    /\ UNCHANGED <<cfg, elo, true_rating, win, lose, god, round_finished,
                   finished_game, rated>>

\* the players a rating step of this poll can nudge
Nudged ==
    {p \in Players : /\ cfg.nudge # 0
                     /\ ~god[p]
                     /\ \E i \in DOMAIN active_games :
                           /\ active_games[i].task = "done"
                           /\ p \in Members(active_games[i])}

\* MatchMakerServer.handle_games.  counting: whether the counters nothing in
\* the program reads (win, lose) and the number of rating steps are kept.
PollGames(counting) ==
    /\ pc = "handle"
    /\ \E step \in ClockSteps :
       \E down \in SUBSET Nudged :
          LET dir == [p \in Players |-> IF p \in down THEN 1 ELSE 0]
              r == HandleFrom(active_games, 1,
                      [status |-> status, last_played |-> last_played,
                       now |-> now, elo |-> elo, win |-> win, lose |-> lose,
                       true_rating |-> true_rating, finished |-> <<>>,
                       rated |-> rated, raised |-> FALSE],
                      dir, step)
          IN /\ status' = r.status
             /\ last_played' = RebaseStamps(r.last_played, r.now)
             /\ now' = RebaseClock(r.last_played, r.now)
             /\ elo' = r.elo
             /\ true_rating' = r.true_rating
             /\ win' = IF counting THEN r.win ELSE win
             /\ lose' = IF counting THEN r.lose ELSE lose
             /\ rated' = IF counting THEN r.rated ELSE rated
             /\ IF r.raised
                THEN /\ active_games' = CancelPending(active_games)
                     /\ finished_game' = finished_game
                     /\ pc' = "crashed"
                ELSE /\ active_games' = PopFinished(active_games, r.finished)
                     /\ finished_game' = Len(r.finished)
                     /\ pc' = "sleep"
    /\ UNCHANGED <<cfg, god, round_finished, ticks>>

TryCreateGame == CreateGame(TRUE)

HandleGames == PollGames(TRUE)

\* Game.run resumed after asyncio.sleep(duration), while the run loop is
\* suspended in its own sleep: compute_score runs to its end or raises.
SessionRun(i) ==
    /\ pc = "sleep"
    /\ i \in DOMAIN active_games
    /\ active_games[i].task = "running"
    /\ \E g \in ComputeScore(active_games[i], elo, true_rating, god,
                             cfg.nudge, cfg.god_boost) :
          active_games' = [active_games EXCEPT ![i] = g]
    /\ UNCHANGED <<cfg, status, last_played, elo, true_rating, win, lose, god,
                   round_finished, finished_game, rated, pc, now, ticks>>

\* run() resumed after asyncio.sleep(0.01): the round count and the break.
Wake ==
    /\ pc = "sleep"
    /\ now' = RebaseClock(last_played, now + 1)
    /\ last_played' = RebaseStamps(last_played, now + 1)
    /\ IF cfg.max_round # 0
       THEN /\ round_finished' = round_finished + finished_game
            /\ IF RoundLimitExceeded(round_finished', cfg.max_round)
               THEN /\ pc' = "stopped"
                    /\ active_games' = CancelPending(active_games)
               ELSE /\ pc' = "create"
                    /\ UNCHANGED active_games
       ELSE /\ pc' = "create"
            /\ UNCHANGED <<round_finished, active_games>>
    /\ UNCHANGED <<cfg, status, elo, true_rating, win, lose, god,
                   finished_game, rated, ticks>>

Next ==
    \/ TryCreateGame
    \/ HandleGames
    \/ \E i \in 1 .. NumPlayers : SessionRun(i)
    \/ Wake

Spec == Init /\ [][Next]_vars

\* -------------------------------------------- a team size or number of zero

\* The settings MatchMakerServer.__init__ takes as they are with no team or
\* no player per team.
ZeroConfigs ==
    {[team_size |-> shape[1], team_number |-> shape[2], k_factor |-> KFactor,
      nudge |-> n, god_boost |-> GodBoost, max_round |-> m] :
        shape \in {sh \in (0 .. MaxTeamSize) \X (0 .. MaxTeamNumber) :
                      sh[1] = 0 \/ sh[2] = 0},
        n \in NudgeValues, m \in 0 .. MaxRoundLimit}

ZeroInit == Population(ZeroConfigs, EloProfiles)

ZeroSpec == ZeroInit /\ [][Next]_vars

\* ------------------------------------------------- players far apart in elo

\* Games of two teams between players whose elos are spread over several
\* hundred points, where the expected scores are far from 1 / 2.
SpreadConfigs ==
    {[team_size |-> size, team_number |-> 2, k_factor |-> KFactor,
      nudge |-> 0, god_boost |-> GodBoost, max_round |-> m] :
        size \in 1 .. MaxTeamSize, m \in 0 .. MaxRoundLimit}

SpreadProfiles ==
    {[p \in Players |-> base + gap * (p - 1)] :
        base \in {RatingFloor, RatingFloor + 10}, gap \in {1, 13, 16}}

SpreadInit == Population(SpreadConfigs, SpreadProfiles)

SpreadSpec == SpreadInit /\ [][Next]_vars

\* The runs in which every player is a team of its own, or the players
\* make two teams of two: a player faces up to NumPlayers - 1 others.
WideConfigs ==
    {[team_size |-> shape[1], team_number |-> shape[2], k_factor |-> KFactor,
      nudge |-> 0, god_boost |-> GodBoost, max_round |-> 0] :
        shape \in {<<1, NumPlayers>>, <<2, 2>>}}

\* The elos of EloProfiles, and elos with two players some 300 points above
\* the two others.
WideProfiles ==
    {[p \in Players |-> 100 + (p - 1)],
     [p \in Players |-> 100 + (IF p <= 2 THEN p - 1 ELSE 8 * p + 5)]}

WideInit == Population(WideConfigs, WideProfiles)

WideSpec == WideInit /\ [][Next]_vars

\* ------------------------------------------------ the loop that never ends

\* The runs of the steady configurations, without the cap on the iterations:
\* the counters that only ever grow (win, lose, rated, ticks) are left out,
\* so that a run that goes on for ever moves among finitely many states.
LiveInit == Population(SteadyConfigs, EloProfiles)

LiveTryCreateGame == CreateGame(FALSE)

LiveHandleGames == PollGames(FALSE)

LiveNext ==
    \/ LiveTryCreateGame
    \/ LiveHandleGames
    \/ \E i \in 1 .. NumPlayers : SessionRun(i)
    \/ Wake

\* a session the event loop can resume: its task is still running while the
\* run loop is suspended in its sleep
Resumable(i) ==
    /\ pc = "sleep"
    /\ i \in DOMAIN active_games
    /\ active_games[i].task = "running"

\* the steps of SessionRun(i), told by their effect on the task
Resumed(i) ==
    /\ Resumable(i)
    /\ pc' = "sleep"
    /\ active_games'[i].task # "running"

\* The event loop runs the coroutine of run() whenever it is ready, and
\* resumes, during one of the sleeps of run(), every session whose duration
\* has elapsed.  try_create_game and handle_games have no await: the loop
\* position is never left at either of them (weak fairness of
\* LiveTryCreateGame and LiveHandleGames, which are enabled exactly at
\* "create" and "handle" and always leave it).  The sleep of run() always
\* elapses (weak fairness of Wake).  A session that can be resumed again
\* and again is resumed (strong fairness of SessionRun(i), which is enabled
\* exactly when Resumable(i) and whose steps are the Resumed(i) steps).
LiveSpec ==
    /\ LiveInit
    /\ [][LiveNext]_vars
    /\ []<>(pc # "create")
    /\ []<>(pc # "handle")
    /\ WF_vars(Wake)
    /\ \A i \in 1 .. NumPlayers :
          <>[]~Resumable(i) \/ []<><<Resumed(i)>>_vars

\* ------------------------------------------------------------------ claims

Waiting == {p \in Players : status[p] = "WAITING"}

EnoughWaiting == Cardinality(Waiting) >= cfg.team_size * cfg.team_number

\* what find_players returns when it is called in the current state
Found == FindPlayers(status, last_played, elo, cfg.team_size, cfg.team_number)

\* the waiting player find_players has to start from: the one with the
\* smallest last_played, the first of them in the store when several tie
LongestWaiting ==
    CHOOSE p \in Waiting :
        \A q \in Waiting \ {p} :
            \/ last_played[p] < last_played[q]
            \/ last_played[p] = last_played[q] /\ p < q

\* C1: whenever at least team_size * team_number players are WAITING
\* (team_size >= 1, team_number >= 1), find_players returns exactly
\* team_number rosters of exactly team_size players each, no player appears
\* twice (neither in one roster nor in two), and every returned player is
\* WAITING at the call.
C1_FullDisjointWaitingRosters ==
    (cfg.team_size >= 1 /\ cfg.team_number >= 1 /\ EnoughWaiting) =>
        /\ Found.found
        /\ Len(Found.teams) = cfg.team_number
        /\ \A i \in DOMAIN Found.teams :
              /\ Len(Found.teams[i]) = cfg.team_size
              /\ Cardinality(Range(Found.teams[i])) = cfg.team_size
              /\ \A p \in Range(Found.teams[i]) : status[p] = "WAITING"
        /\ \A i, j \in DOMAIN Found.teams :
              i # j => Range(Found.teams[i]) \cap Range(Found.teams[j]) = {}

\* C1 witness: try_create_game has just formed a game of two teams of two
\* out of the waiting players.
C1_Witness ==
    /\ pc = "handle"
    /\ cfg.team_size = 2 /\ cfg.team_number = 2
    /\ active_games # <<>>
    /\ LET g == active_games[Len(active_games)]
       IN /\ g.task = "running"
          /\ Len(g.teams) = 2
          /\ \A i \in DOMAIN g.teams : Cardinality(g.teams[i]) = 2

\* C2: whenever find_players forms a game, the WAITING player with the
\* smallest last_played (the longest-waiting one) is in one of the returned
\* teams.
C2_LongestWaitingIsPicked ==
    Found.found =>
        \E i \in DOMAIN Found.teams : LongestWaiting \in Range(Found.teams[i])

\* C2 witness: find_players is about to be called with more players waiting
\* than a game takes, after games have been rated, and the longest-waiting
\* player is not the first player of the store.
C2_Witness ==
    /\ pc = "create"
    /\ rated > 0
    /\ Found.found
    /\ Cardinality(Waiting) > cfg.team_size * cfg.team_number
    /\ LongestWaiting # 1

\* C3: at every instant where the run loop is suspended between two ticks,
\* every registered player has one status, WAITING or IN_GAME, and every
\* member of a team of a game in the active set is IN_GAME.
C3_ActivePlayersAreInGame ==
    /\ status \in [Players -> {"WAITING", "IN_GAME"}]
    /\ pc = "sleep" =>
          \A i \in DOMAIN active_games :
              \A p \in Members(active_games[i]) : status[p] = "IN_GAME"

\* C3 witness: the loop is suspended, a game is active, and players that
\* were rated in a finished game are back to WAITING.
C3_Witness ==
    /\ pc = "sleep"
    /\ active_games # <<>>
    /\ finished_game > 0
    /\ Waiting # {}

\* C4: no player is a member of two games that are in the active set at the
\* same time.
C4_ActiveRostersDisjoint ==
    \A i, j \in DOMAIN active_games :
        i # j => Members(active_games[i]) \cap Members(active_games[j]) = {}

\* C4 witness: two games are active together after a game has been rated.
C4_Witness ==
    /\ Len(active_games) >= 2
    /\ rated > 0
    /\ \A i \in DOMAIN active_games : active_games[i].task = "running"

\* C5: with a max_round configured, the break is taken exactly when run()
\* wakes up with a number of rated games strictly greater than max_round:
\* the loop goes on while that number is less than or equal to max_round,
\* and stops at the end of the first tick at which it is greater.
C5_StopsOnlyPastMaxRound ==
    [][cfg.max_round # 0 =>
          /\ (pc # "stopped" /\ pc' = "stopped") => pc = "sleep"
          /\ (pc = "sleep" /\ pc' # "sleep") =>
                (pc' = "stopped" <=> rated > cfg.max_round)]_vars

\* C5 witness: the loop has stopped one tick after a tick that ended with
\* exactly max_round rated games.
C5_Witness ==
    /\ pc = "stopped"
    /\ cfg.max_round >= 1
    /\ finished_game >= 1
    /\ rated - finished_game = cfg.max_round

\* p waits in a run with no round limit and enough registered players
WaitsInEndlessRun(p) ==
    /\ cfg.max_round = 0
    /\ cfg.team_size * cfg.team_number <= NumPlayers
    /\ status[p] = "WAITING"

InGame(p) == status[p] = "IN_GAME"

\* C6: in a run with no round limit, with at least team_size * team_number
\* registered players, in which every launched session finishes and the
\* loop keeps ticking, every player that is WAITING is eventually IN_GAME.
C6_NoPlayerWaitsForever ==
    \A p \in Players : WaitsInEndlessRun(p) ~> InGame(p)

\* C6 witness: the last player of the store has been placed into a game
\* while a player that has already played and been released is waiting
\* again, in a run with no round limit where a game leaves a player out.
C6_Witness ==
    /\ cfg.max_round = 0
    /\ cfg.team_size * cfg.team_number < NumPlayers
    /\ status[NumPlayers] = "IN_GAME"
    /\ \E q \in Waiting :
          \E i \in DOMAIN active_games :
              /\ NumPlayers \in Members(active_games[i])
              /\ last_played[q] < last_played[NumPlayers]
              /\ last_played[q] > 0

\* the rating compute_score reads for a player: true_rating with a nudge
\* configured, the elo without
StrengthOf(p) == IF cfg.nudge # 0 THEN true_rating[p] ELSE elo[p]

\* the step from s to s' is the end of the session of the game at position i
SessionEnds(i) ==
    /\ pc = "sleep"
    /\ pc' = "sleep"
    /\ active_games[i].task = "running"
    /\ active_games'[i].task # "running"

\* C7: for every game of team_number non-empty teams whose players have
\* non-negative ratings, compute_score completes and leaves the teams with
\* pairwise distinct scores whose set is exactly {0, ..., team_number - 1}.
C7_ComputeScoreRanksEveryTeam ==
    [][\A i \in DOMAIN active_games :
          (/\ SessionEnds(i)
           /\ \A t \in DOMAIN active_games[i].teams :
                 active_games[i].teams[t] # {}
           /\ \A p \in Members(active_games[i]) : StrengthOf(p) >= 0)
          => /\ active_games'[i].task = "done"
             /\ Range(active_games'[i].score)
                   = 0 .. (Len(active_games[i].teams) - 1)]_vars

\* a poll of handle_games starts with a failed session in the active set
FailedPolled == pc = "handle" /\ \E i \in DOMAIN active_games :
                                    active_games[i].task = "failed"

\* C8: the poll of handle_games that meets a failed session ends the run
\* loop with the failure; the failed game is not rated (no elo, win or lose
\* of its players changes) and its session is not launched again; once the
\* loop has ended that way nothing happens any more (no game is formed, no
\* game is rated).
C8_FailureHaltsTheLoop ==
    [][/\ pc # "crashed"
       /\ FailedPolled =>
             /\ pc' = "crashed"
             /\ Len(active_games') = Len(active_games)
             /\ \A i \in DOMAIN active_games :
                   active_games[i].task = "failed" =>
                      /\ active_games'[i] = active_games[i]
                      /\ \A p \in Members(active_games[i]) :
                            /\ elo'[p] = elo[p]
                            /\ win'[p] = win[p]
                            /\ lose'[p] = lose[p]]_vars

\* C8 witness: the loop has ended on the failure of a session, after other
\* games were rated.
C8_Witness ==
    /\ pc = "crashed"
    /\ rated > 0
    /\ \E i \in DOMAIN active_games : active_games[i].task = "failed"

PlaysIn(p, task) ==
    \E i \in DOMAIN active_games :
        p \in Members(active_games[i]) /\ active_games[i].task = task

PlaysInEndlessRun(p) == cfg.max_round = 0 /\ PlaysIn(p, "running")

Scored(p) == PlaysIn(p, "done")

Opposing(game, t, dir) ==
    {u \in DOMAIN game.teams \ {t} :
        IF dir < 0 THEN game.score[u] < game.score[t]
        ELSE game.score[u] > game.score[t]}

\* C10: when a game is rated, the win counter of each of its players grows
\* by the number of opposing teams that scored lower than the player's team
\* and the lose counter by the number of opposing teams that scored higher,
\* so that wins + losses grow by at most team_number - 1 per game.
C10_OneCountPerOpposingTeam ==
    [][(pc = "handle" /\ pc' = "sleep") =>
          \A i \in DOMAIN active_games :
              active_games[i].task = "done" =>
                 \A t \in DOMAIN active_games[i].teams :
                    \A p \in active_games[i].teams[t] :
                       /\ win'[p] - win[p]
                             = Cardinality(Opposing(active_games[i], t, -1))
                       /\ lose'[p] - lose[p]
                             = Cardinality(Opposing(active_games[i], t, 1))
                       /\ (win'[p] + lose'[p]) - (win[p] + lose[p])
                             <= Len(active_games[i].teams) - 1]_vars

\* C11: when fewer than team_size * team_number players are WAITING,
\* find_players returns None and try_create_game changes nothing: no status,
\* no last_played, and the active set stays as it is (no game is created and
\* no session launched).
C11_NoGameWithoutEnoughWaiting ==
    [][(pc = "create" /\ ~EnoughWaiting) =>
          /\ ~Found.found
          /\ pc' = "handle"
          /\ UNCHANGED <<status, last_played, active_games>>]_vars

\* C11 witness: the second call of try_create_game has just returned with
\* one player waiting where a game takes three; the game of the first call
\* is still the only one.
C11_Witness ==
    /\ pc = "handle"
    /\ ticks = 2
    /\ cfg.team_size * cfg.team_number = 3
    /\ Cardinality(Waiting) = 1
    /\ Len(active_games) = 1
    /\ active_games[1].task = "running"

\* C12: a configuration with team_size = 0 or team_number = 0 is rejected
\* before the first tick: the scheduler never forms a game, never changes a
\* status and never launches a session.
C12_ZeroShapeIsRejected ==
    (cfg.team_size = 0 \/ cfg.team_number = 0) =>
        /\ active_games = <<>>
        /\ \A p \in Players : status[p] = "WAITING"

\* the buffer find_players deals into teams when it is called in the
\* current state (some player is waiting)
Pool ==
    PendingPlayers(OldestFirst(StoreGet(status, "WAITING"), last_played),
                   elo, cfg.team_size, cfg.team_number)

\* C13: the extraction with stride team_number - i deals the elo-sorted
\* buffer round-robin: team i (from 0) gets exactly the players at the sorted
\* positions i, i + team_number, i + 2 * team_number, ...; hence with two
\* teams or more no two neighbours of the sorted buffer share a team.
C13_TeamsAreDealtRoundRobin ==
    Found.found =>
        /\ \A i \in 1 .. cfg.team_number :
              Found.teams[i] =
                 [j \in 1 .. cfg.team_size |->
                     Pool[(j - 1) * cfg.team_number + i]]
        /\ cfg.team_number >= 2 =>
              \A k \in 1 .. (Len(Pool) - 1) :
                 \A i \in DOMAIN Found.teams :
                    ~({Pool[k], Pool[k + 1]} \subseteq Range(Found.teams[i]))

\* C13 witness: four waiting players with elos 1000, 1010, 1020, 1030 have
\* just been dealt into two teams of two, {1000, 1020} and {1010, 1030}.
C13_Witness ==
    /\ pc = "handle"
    /\ cfg.team_size = 2 /\ cfg.team_number = 2
    /\ ticks = 1
    /\ elo = [p \in Players |-> 100 + (p - 1)]
    /\ Len(active_games) = 1
    /\ active_games[1].teams = <<{1, 3}, {2, 4}>>

\* C14: a true_rating that starts at 0 or above is at 0 or above after any
\* number of nudges, over any sequence of rated games, for god players and
\* the others alike.
C14_TrueRatingNeverNegative ==
    \A p \in Players : true_rating[p] >= 0

\* C14 witness: two games of all four players have been rated with a nudge;
\* a player that started at 1 is at 0 (nudged down twice, the second time
\* held at 0) and the god player has been nudged up twice.
C14_Witness ==
    /\ cfg.nudge = 1
    /\ cfg.team_size = 2 /\ cfg.team_number = 2
    /\ rated = 2
    /\ \E p \in Players : ~god[p] /\ true_rating[p] = 0
    /\ \E p \in Players : god[p] /\ true_rating[p] = 3

GameOutcome == {"P1_WIN", "P2_WIN", "DRAW"}

\* the same result seen from the other player
Invert(result) ==
    IF result = "P1_WIN" THEN "P2_WIN"
    ELSE IF result = "P2_WIN" THEN "P1_WIN" ELSE "DRAW"

\* get_elo_delta(a, b, o) + get_elo_delta(b, a, invert(o)) at the elos the
\* players have now
DeltaSum(a, b, result) ==
    GetEloDelta(elo[a], elo[b], result, cfg.k_factor)
        + GetEloDelta(elo[b], elo[a], Invert(result), cfg.k_factor)

\* the distance from 1 to the next float, as a count of 1 / Quantum
Epsilon == Quantum \div Pow10(SigDigits - 1)

Scored_(game) ==
    game.task = "done" /\ \A t \in DOMAIN game.score : game.score[t] # NoScore

\* the games of the active set whose outcome has been computed
ScoredGames == SelectSeq(active_games, Scored_)

\* in the step from s to s' a field update_elo writes changes for player p
RatingTouched(p) ==
    \/ elo'[p] # elo[p]
    \/ win'[p] # win[p]
    \/ lose'[p] # lose[p]
    \/ true_rating'[p] # true_rating[p]

\* A game whose session is still running is not rated and its players are
\* not released; whatever is rated belongs to a game whose outcome has been
\* computed, and no more games are rated in a poll than have one.
RatedOnlyWhenScored ==
    /\ \A i \in DOMAIN active_games :
          active_games[i].task = "running" =>
             \A p \in Members(active_games[i]) :
                 status'[p] = "IN_GAME" /\ ~RatingTouched(p)
    /\ \A p \in Players :
          RatingTouched(p) =>
             /\ pc = "handle"
             /\ \E i \in DOMAIN active_games :
                   Scored_(active_games[i]) /\ p \in Members(active_games[i])
    /\ rated' # rated =>
          /\ pc = "handle"
          /\ rated' - rated <= Len(ScoredGames)

\* The games rated by a poll (the first of the games whose outcome has been
\* computed, as many as the poll has rated) leave the active set in that
\* poll, with their players back to WAITING: they cannot be rated again.
RatedGamesAreReleased ==
    /\ Len(active_games') = Len(active_games) - (rated' - rated)
    /\ \A j \in 1 .. (rated' - rated) :
          /\ \A p \in Members(ScoredGames[j]) : status'[p] = "WAITING"
          /\ \A i \in DOMAIN active_games' :
                active_games'[i].teams # ScoredGames[j].teams

\* C16 as stated: a game is rated only once its outcome has been computed,
\* and in the tick in which it is rated its players go back to WAITING and
\* it leaves the active set; a game whose session is running is never rated
\* and its players never released.
C16_RatedThenReleasedAndRemoved ==
    [][/\ RatedOnlyWhenScored
       /\ pc = "handle" => RatedGamesAreReleased]_vars

\* the players whose status the step from s to s' leaves alone
Untouched == {q \in Players : status'[q] = status[q]}

\* the stamps of p and q compare after the step as they did before it (the
\* clock is counted from the oldest stamp in use, so a stamp that is kept
\* is one that keeps its place among the stamps nobody has written)
SameOrder(p, q) ==
    /\ last_played'[p] < last_played'[q] <=> last_played[p] < last_played[q]
    /\ last_played'[p] = last_played'[q] <=> last_played[p] = last_played[q]

\* p holds a reading of the clock taken in the step from s to s'
StampedNow(p) ==
    /\ last_played'[p] <= now'
    /\ \A q \in Untouched : last_played'[q] <= last_played'[p]

\* C17 as stated: PlayerStore.set stamps last_played with the current time
\* when it moves a player into WAITING and leaves it unchanged when it moves
\* the player into IN_GAME; a stamp changes only at an IN_GAME -> WAITING
\* transition.
C17_StampOnlyOnWaiting ==
    [][\A p \in Players :
          /\ (status[p] = "IN_GAME" /\ status'[p] = "WAITING") => StampedNow(p)
          /\ (status[p] = "WAITING" /\ status'[p] = "IN_GAME") =>
                \A q \in Untouched : SameOrder(p, q)
          /\ p \in Untouched => \A q \in Untouched : SameOrder(p, q)]_vars

\* the number of players in the store
Registered == Cardinality(DOMAIN status)

\* C18 as stated: for every max_round >= 0, with at least team_size *
\* team_number registered players and every launched session finishing
\* without failure, the run loop eventually stops.
C18_RunLoopStops ==
    (Registered >= cfg.team_size * cfg.team_number) ~> (pc = "stopped")

\* C18 amended: the same for every max_round >= 1; a max_round of 0 is no
\* round limit.
C18_RunLoopStopsWithRoundLimit ==
    (Registered >= cfg.team_size * cfg.team_number /\ cfg.max_round >= 1)
        ~> (pc = "stopped")

\* C18 witness: a run with a round limit and enough registered players has
\* left the loop, after more finished games than max_round.
C18_Witness ==
    /\ pc = "stopped"
    /\ cfg.max_round >= 1
    /\ Registered >= cfg.team_size * cfg.team_number
    /\ round_finished > cfg.max_round

\* no session has failed: no task of the active set has ended with an
\* exception and the loop has not halted on one
NoSessionFailed ==
    /\ pc # "crashed"
    /\ \A i \in DOMAIN active_games : active_games[i].task # "failed"

\* the positions in the active set of the games p is a member of
GamesOf(p) == {i \in DOMAIN active_games : p \in Members(active_games[i])}

\* C19: whenever no session has failed, between the steps of the run loop
\* every IN_GAME player is a member of exactly one game of the active set
\* and no WAITING player of any, so that the number of WAITING players plus
\* team_size * team_number times the number of active games is the number
\* of registered players.
C19_InGamePlayersHaveOneActiveGame ==
    NoSessionFailed =>
       /\ \A p \in Players :
             Cardinality(GamesOf(p)) = (IF status[p] = "IN_GAME" THEN 1 ELSE 0)
       /\ Cardinality(Waiting)
             + cfg.team_size * cfg.team_number * Len(active_games)
          = Registered

\* C19 witness: games have been rated and their players released, two games
\* are active and a player is waiting, and no session has failed.
C19_Witness ==
    /\ NoSessionFailed
    /\ rated > 0
    /\ Len(active_games) >= 2
    /\ Waiting # {}

\* the orders in which the teams of a game can be listed
TeamOrders(game) ==
    {f \in [DOMAIN game.teams -> DOMAIN game.teams] :
        \A i, j \in DOMAIN game.teams : f[i] = f[j] => i = j}

\* the same game with its teams listed in the order f
Reordered(game, f) ==
    [teams |-> [i \in DOMAIN game.teams |-> game.teams[f[i]]],
     score |-> [i \in DOMAIN game.teams |-> game.score[f[i]]],
     task  |-> game.task]

\* A poll rates its games from the elos the players have before it: the
\* players of every game it rates get the elo they had plus the average of
\* their deltas at those elos, and nobody else's elo changes.
RatedFromElosBefore ==
    pc = "handle" =>
       \A p \in Players :
          IF \E j \in 1 .. (rated' - rated) : p \in Members(ScoredGames[j])
          THEN \A j \in 1 .. (rated' - rated) :
                  p \in Members(ScoredGames[j]) =>
                     elo'[p] = NewElo(ScoredGames[j], p, elo, cfg.k_factor)
          ELSE elo'[p] = elo[p]

\* When a poll is about to rate a game, the averaged update and the new elo
\* of every player of the game are within the given distances of what they
\* are with the teams listed in any other order.
OrderMatters(avg_gap, elo_gap) ==
    pc = "handle" =>
       \A i \in DOMAIN active_games :
          Scored_(active_games[i]) =>
             \A p \in Members(active_games[i]) :
                LET game == active_games[i]
                    avg == AverageDelta(game, p, elo, cfg.k_factor)
                IN \A f \in TeamOrders(game) :
                      LET other == AverageDelta(Reordered(game, f), p, elo,
                                                cfg.k_factor)
                      IN /\ Abs(other - avg) <= avg_gap
                         /\ Abs(RoundDiv(other, Quantum * EloUnit)
                                  - RoundDiv(avg, Quantum * EloUnit))
                               <= elo_gap

=============================================================================
